---- MODULE Spec2Model ----
(***************************************************************************)
(* A model of `wasmtime serve` (src/commands/serve.rs): the start-up       *)
(* sequence of ServeCommand::execute / serve, the accept loop, the         *)
(* per-request handle_request with its spawned invocation task and the     *)
(* oneshot response channel, and the epoch ticker thread.                  *)
(***************************************************************************)
EXTENDS Integers, Sequences, FiniteSets, TLC

VARIABLES
    cfg,        \* ServeCommand: the command-line options (self.run.*) and the build
    mainpc,     \* position of execute()/serve()
    mainErr,    \* the error execute() returned, "none" otherwise
    everBound,  \* the listening socket has been bound (socket.bind succeeded)
    engine,     \* Engine: [epoch_interruption, pooling, epoch], the probe before it
    ticker,     \* EpochThread: [pc, shutdown, sleepLeft] and the record of its stop
    log,        \* the host's stdout and stderr and the LogStream writes under way
    next_id,    \* ProxyHandlerInner::next_id
    conn,       \* per accepted connection: [st, cur]
    req         \* per request: handle_request's frame and its spawned task

vars == <<cfg, mainpc, mainErr, everBound, engine, ticker, next_id, conn, req, log>>

----------------------------------------------------------------------------
(* Bounds of the model *)

\* connections the clients open during one run
MaxConns == 2
\* requests the clients send during one run
MaxReqs == 2
\* time units in one ticker interval (timeout / EPOCH_PRECISION)
TickLen == 2
\* epochs the ticker counts past the first deadline before the model stops it
EpochSlack == 1

\* writes the guests make to their output streams during one run
MaxWrites == 2
\* bytes in one write
MaxLen == 2

\* const EPOCH_PRECISION: u32 = 10
EPOCH_PRECISION == 10

Conns == 1..MaxConns
Reqs == 1..MaxReqs
\* the cap on the global epoch counter in the model
MaxEpoch == EPOCH_PRECISION + 1 + EpochSlack
\* the configured timeout T in time units
Timeout == EPOCH_PRECISION * TickLen

----------------------------------------------------------------------------
(* Values *)

OptBool == {"None", "SomeTrue", "SomeFalse"}
HostHeaders == {"absent", "valid", "non_utf8", "not_an_authority"}
Responses == {"resp_a", "resp_b"}
UriInvalid == "HttpRequestUriInvalid"
\* the error codes a guest may pass to response-outparam::set
GuestErrorCodes == {"InternalError"}
\* what the spawned task can end with
TaskErrors ==
    {UriInvalid, "new_store", "resource_table", "instantiate", "trap", "limit", "interrupt"}
JoinError == "JoinError"
Min(S) == CHOOSE x \in S : \A y \in S : x <= y

NoReq ==
    [conn |-> 0, host |-> "absent", authority |-> FALSE, path_and_query |-> FALSE,
     uri |-> "none", hr |-> "none", hrVal |-> "none", task |-> "none", res |-> "none",
     id |-> -1, chan |-> "none", sender |-> "none", sent |-> "none",
     new_store_called |-> FALSE, store |-> FALSE, deadline |-> -1, age |-> 0,
     looped |-> FALSE, logged |-> FALSE, stores_created |-> 0, invocations |-> 0]

----------------------------------------------------------------------------
(* Start-up: ServeCommand::execute and the head of ServeCommand::serve *)

Configs ==
    [nn : OptBool, nn_feature : BOOLEAN, profile : {"None", "Native", "Guest"},
     threads : OptBool, http : OptBool, component_model : OptBool,
     cli : OptBool, common : OptBool, target : {"Core", "Component"},
     timeout : BOOLEAN]

\* the options of a plain `wasmtime serve component.wasm`, as execute() leaves
\* them (wasi.http and wasm.component_model replaced by Some(true))
ServingConfig(timeout) ==
    [nn |-> "None", nn_feature |-> FALSE, profile |-> "None", threads |-> "None",
     http |-> "SomeTrue", component_model |-> "SomeTrue", cli |-> "None",
     common |-> "None", target |-> "Component", timeout |-> timeout]

ValidationErrors ==
    {"wasi_nn_not_compiled", "guest_profiler", "wasi_threads", "wasi_http_disabled",
     "component_model_disabled", "common_with_cli", "not_a_component"}

\* the checks of execute() before the runtime is built, in the order of the code:
\* the first bail! that applies, "none" when none does
Validate(c) ==
    IF c.nn = "SomeTrue" /\ ~c.nn_feature THEN "wasi_nn_not_compiled"
    ELSE IF c.profile = "Guest" THEN "guest_profiler"
    ELSE IF c.threads = "SomeTrue" THEN "wasi_threads"
    ELSE IF c.http = "SomeFalse" THEN "wasi_http_disabled"
    ELSE IF c.component_model = "SomeFalse" THEN "component_model_disabled"
    ELSE "none"

\* Option::replace(true) on wasi.http and wasm.component_model: http is replaced
\* once its check is reached, component_model once http's check has passed
AfterReplace(c) ==
    LET reachedHttp == ~(c.nn = "SomeTrue" /\ ~c.nn_feature) /\ c.profile # "Guest"
                       /\ c.threads # "SomeTrue"
        c1 == IF reachedHttp THEN [c EXCEPT !.http = "SomeTrue"] ELSE c
    IN  IF reachedHttp /\ c.http # "SomeFalse"
        THEN [c1 EXCEPT !.component_model = "SomeTrue"] ELSE c1

\* the bail!s of add_to_linker, in the order of the code
AddToLinker(c) ==
    IF c.common # "None" /\ c.cli # "None" THEN "common_with_cli"
    ELSE IF c.nn = "SomeTrue" /\ ~c.nn_feature THEN "wasi_nn_not_compiled"
    ELSE IF c.threads = "SomeTrue" THEN "wasi_threads"
    ELSE IF c.http = "SomeFalse" THEN "wasi_http_disabled"
    ELSE "none"

\* what use_pooling_allocator_by_default() can come to: the test reservation
\* succeeds, it is refused, or the probe fails before it (Engine::new(..)?)
ProbeOutcomes == {"reserved", "refused", "error"}

\* nothing is configured yet: the probe has not run, no Engine exists
NoEngine ==
    [epoch_interruption |-> FALSE, pooling |-> "None", epoch |-> 0,
     probe |-> "none", built |-> FALSE]

\* a configuration that always enables epoch interruption
EpochInterruptionAlways(timeout) == TRUE

\* lines 258-260: config.epoch_interruption(true) when a timeout is configured
EpochInterruption(timeout) == timeout

\* a probe whose error is propagated with `?`
ProbeErrorPropagates(probe) == probe = "error"

\* line 254: .unwrap_or(None): no outcome of the probe makes serve() return
ProbeFails(probe) == FALSE

\* use_pooling_allocator_by_default().unwrap_or(None): the hint given to config()
PoolingHint(probe) ==
    IF probe = "reserved" THEN "SomeTrue" ELSE "None"

\* an order of the steps of serve() in which the socket is bound first
StageAfterBindFirst(stage) ==
    CASE stage = "engine" -> "bind"
      [] stage = "bind" -> "linker"
      [] stage = "linker" -> "load"
      [] stage = "load" -> "instantiate_pre"
      [] stage = "instantiate_pre" -> "spawn_epoch"
      [] stage = "spawn_epoch" -> "accept"

\* the order of the steps of serve() after the configuration is built
StageAfter(stage) ==
    CASE stage = "engine" -> "linker"
      [] stage = "linker" -> "load"
      [] stage = "load" -> "instantiate_pre"
      [] stage = "instantiate_pre" -> "bind"
      [] stage = "bind" -> "spawn_epoch"
      [] stage = "spawn_epoch" -> "accept"

\* execute()/serve() returns Err(e) through `?` or bail!
Fail(e) ==
    /\ mainpc' = "done"
    /\ mainErr' = e

\* lines 79-112: init_logging and the command-line checks
ExecuteValidate ==
    /\ mainpc = "execute"
    /\ \E logging_ok \in BOOLEAN :
          IF ~logging_ok THEN Fail("other") /\ cfg' = cfg
          ELSE /\ cfg' = AfterReplace(cfg)
               /\ IF Validate(cfg) # "none" THEN Fail(Validate(cfg))
                  ELSE mainpc' = "runtime" /\ mainErr' = mainErr
    /\ UNCHANGED <<everBound, engine, ticker, next_id, conn, req, log>>

\* lines 114-119: the tokio runtime is built and block_on starts the select!
BuildRuntime ==
    /\ mainpc = "runtime"
    /\ \E ok \in BOOLEAN :
          IF ok THEN mainpc' = "config" /\ mainErr' = mainErr ELSE Fail("other")
    /\ UNCHANGED <<cfg, everBound, engine, ticker, next_id, conn, req, log>>

\* lines 251-260: the allocator probe, config(), epoch_interruption
ServeConfig ==
    /\ mainpc = "config"
    /\ \E probe \in ProbeOutcomes, ok \in BOOLEAN :
          IF ok /\ ~ProbeFails(probe)
          THEN /\ engine' = [engine EXCEPT !.probe = probe,
                                           !.pooling = PoolingHint(probe),
                                           !.epoch_interruption =
                                               EpochInterruption(cfg.timeout)]
               /\ mainpc' = "engine" /\ mainErr' = mainErr
          ELSE Fail("other") /\ engine' = [engine EXCEPT !.probe = probe]
    /\ UNCHANGED <<cfg, everBound, ticker, next_id, conn, req, log>>

\* lines 262-274: Engine::new and Linker::new
ServeEngine ==
    /\ mainpc = "engine"
    /\ \E ok \in BOOLEAN :
          IF ok THEN /\ engine' = [engine EXCEPT !.built = TRUE]
                     /\ mainpc' = StageAfter("engine") /\ mainErr' = mainErr
          ELSE Fail("other") /\ engine' = engine
    /\ UNCHANGED <<cfg, everBound, ticker, next_id, conn, req, log>>

\* line 276: self.add_to_linker(&mut linker)?
ServeAddToLinker ==
    /\ mainpc = "linker"
    /\ IF AddToLinker(cfg) # "none" THEN Fail(AddToLinker(cfg))
       ELSE mainpc' = StageAfter("linker") /\ mainErr' = mainErr
    /\ UNCHANGED <<cfg, everBound, engine, ticker, next_id, conn, req, log>>

\* lines 278-281: load_module; a core module is refused
ServeLoadComponent ==
    /\ mainpc = "load"
    /\ \E ok \in BOOLEAN :
          IF ~ok THEN Fail("other")
          ELSE IF cfg.target = "Core" THEN Fail("not_a_component")
          ELSE mainpc' = StageAfter("load") /\ mainErr' = mainErr
    /\ UNCHANGED <<cfg, everBound, engine, ticker, next_id, conn, req, log>>

\* lines 283-284: instantiate_pre and ProxyPre::new
ServeInstantiatePre ==
    /\ mainpc = "instantiate_pre"
    /\ \E ok \in BOOLEAN :
          IF ok THEN mainpc' = StageAfter("instantiate_pre") /\ mainErr' = mainErr
          ELSE Fail("other")
    /\ UNCHANGED <<cfg, everBound, engine, ticker, next_id, conn, req, log>>

\* lines 286-302: the socket is created, bound and put to listen
ServeBind ==
    /\ mainpc = "bind"
    /\ \E ok \in BOOLEAN :
          IF ok THEN /\ everBound' = TRUE
                     /\ mainpc' = StageAfter("bind") /\ mainErr' = mainErr
          ELSE Fail("other") /\ everBound' = everBound
    /\ UNCHANGED <<cfg, engine, ticker, next_id, conn, req, log>>

\* no EpochThread: `None` on line 310. sinceStop, stopEpoch and stopPc record,
\* for the properties, the time passed since the shutdown flag was stored and
\* the epoch and the thread's position at that moment
NoTicker ==
    [pc |-> "none", shutdown |-> FALSE, sleepLeft |-> 0,
     sinceStop |-> 0, stopEpoch |-> -1, stopPc |-> "none"]

\* lines 349-363: EpochThread::spawn: the flag is false, the thread is at its
\* loop condition
SpawnedTicker == [NoTicker EXCEPT !.pc = "check"]

\* lines 304-315: EpochThread::spawn when a timeout is configured, and
\* ProxyHandler::new (next_id: AtomicU64::from(0))
ServeSpawnEpochThread ==
    /\ mainpc = "spawn_epoch"
    /\ ticker' = IF cfg.timeout
                 THEN SpawnedTicker
                 ELSE ticker
    /\ next_id' = 0
    /\ mainpc' = StageAfter("spawn_epoch")
    /\ UNCHANGED <<cfg, mainErr, everBound, engine, conn, req, log>>

----------------------------------------------------------------------------
(* The accept loop, the interrupt signal and the teardown of serve() *)

\* the tokio runtime exists and polls its tasks: from the accept loop until
\* execute() returns
RuntimeAlive == mainpc \in {"accept", "teardown", "join_epoch"}

\* guest code that is running keeps running while the runtime is being dropped:
\* its worker thread finishes the poll it is in
Polling == RuntimeAlive \/ mainpc = "drop_runtime"

\* a connection's error that would end serve()
OnConnectionErrorFatal(pc) == "teardown"

\* what the accept loop does when serve_connection returned Err for one
\* connection: eprintln!, nothing else
OnConnectionError(pc) == pc

\* line 318-321: listener.accept() returned a stream, a connection task is spawned
Accept(c) ==
    /\ mainpc = "accept"
    /\ conn[c].st = "idle"
    /\ c = Min({d \in Conns : conn[d].st = "idle"})
    /\ conn' = [conn EXCEPT ![c] = [st |-> "open", cur |-> 0]]
    /\ UNCHANGED <<cfg, mainpc, mainErr, everBound, engine, ticker, next_id, req, log>>

\* an accept loop that goes on to the next accept after an error
OnAcceptErrorContinue(pc) == pc

\* line 318: the `?` on listener.accept().await leaves the loop and serve()
OnAcceptError(pc) == "teardown"

\* line 318: listener.accept().await? returned Err: serve() returns it
AcceptError ==
    /\ mainpc = "accept"
    /\ mainpc' = OnAcceptError(mainpc)
    /\ mainErr' = "accept"
    /\ UNCHANGED <<cfg, everBound, engine, ticker, next_id, conn, req, log>>

\* lines 120-123: ctrl_c() completes first in the select!: the serve future is
\* dropped and the block yields Ok(())
CtrlC ==
    /\ mainpc \in {"config", "engine", "linker", "load", "instantiate_pre", "bind",
                   "spawn_epoch", "accept"}
    /\ mainpc' = "teardown"
    /\ mainErr' = "none"
    /\ UNCHANGED <<cfg, everBound, engine, ticker, next_id, conn, req, log>>

\* lines 366-369: the locals of serve() are dropped; Drop for EpochThread stores
\* the shutdown flag when the thread was spawned
ServeDropped ==
    /\ mainpc = "teardown"
    /\ IF ticker.pc # "none"
       THEN /\ ticker' = [ticker EXCEPT !.shutdown = TRUE, !.sinceStop = 0,
                                        !.stopEpoch = engine.epoch, !.stopPc = ticker.pc]
            /\ mainpc' = "join_epoch"
       ELSE /\ ticker' = ticker
            /\ mainpc' = "drop_runtime"
    /\ UNCHANGED <<cfg, mainErr, everBound, engine, next_id, conn, req, log>>

\* a drop that sets the flag and returns without joining the thread
JoinReturnsDetached(pc) == TRUE

\* line 370: JoinHandle::join returns once the thread has exited
JoinReturns(pc) == pc = "exited"

\* line 370: handle.join().unwrap() returns: the drop of EpochThread is over
EpochThreadJoined ==
    /\ mainpc = "join_epoch"
    /\ JoinReturns(ticker.pc)
    /\ mainpc' = "drop_runtime"
    /\ UNCHANGED <<cfg, mainErr, everBound, engine, ticker, next_id, conn, req, log>>

\* lines 114-132: block_on has returned and execute() returns, which drops its
\* local `runtime`: the drop of a tokio Runtime waits until every worker thread
\* has left the poll it is in, and drops the tasks that are suspended
RuntimeDropped ==
    /\ mainpc = "drop_runtime"
    /\ \A r \in Reqs : req[r].task # "invoke_loop"
    /\ mainpc' = "done"
    /\ UNCHANGED <<cfg, mainErr, everBound, engine, ticker, next_id, conn, req, log>>

\* the client closes a connection between two requests: serve_connection returns Ok
ConnClose(c) ==
    /\ RuntimeAlive
    /\ conn[c].st = "open" /\ conn[c].cur = 0
    /\ conn' = [conn EXCEPT ![c].st = "closed"]
    /\ UNCHANGED <<cfg, mainpc, mainErr, everBound, engine, ticker, next_id, req, log>>

\* lines 322-331: serve_connection returns Err (a framing error): it is printed
ConnError(c) ==
    /\ RuntimeAlive
    /\ conn[c].st = "open" /\ conn[c].cur = 0
    /\ conn' = [conn EXCEPT ![c].st = "failed"]
    /\ mainpc' = OnConnectionError(mainpc)
    /\ UNCHANGED <<cfg, mainErr, everBound, engine, ticker, next_id, req, log>>

----------------------------------------------------------------------------
(* The epoch ticker thread and the passing of time *)

\* the largest age the model counts for a sandbox
AgeCap == Timeout + TickLen + 1

\* line 354: the loop condition; line 355: the sleep starts
TickerCheck ==
    /\ ticker.pc = "check"
    /\ IF ticker.shutdown
       THEN ticker' = [ticker EXCEPT !.pc = "exited"]
       ELSE /\ engine.epoch < MaxEpoch
            /\ ticker' = [ticker EXCEPT !.pc = "sleep", !.sleepLeft = TickLen]
    /\ UNCHANGED <<cfg, mainpc, mainErr, everBound, engine, next_id, conn, req, log>>

\* an increment that is lost
IncrementEpochLost(e) == e

\* an increment performed twice
IncrementEpochTwice(e) == e + 2

\* line 356: engine.increment_epoch()
IncrementEpoch(e) == e + 1

\* a loop that looks at the flag again after its sleep and skips the increment
WakeIncrementsUnlessShutdown(shutdown) == ~shutdown

\* lines 355-356: nothing stands between the sleep and the increment: the flag
\* is not looked at there
WakeIncrements(shutdown) == TRUE

\* lines 355-356: the sleep is over, the epoch is incremented
TickerWake ==
    /\ ticker.pc = "sleep"
    /\ ticker.sleepLeft = 0
    /\ engine' = [engine EXCEPT !.epoch = IF WakeIncrements(ticker.shutdown)
                                           THEN IncrementEpoch(@) ELSE @]
    /\ ticker' = [ticker EXCEPT !.pc = "check"]
    /\ UNCHANGED <<cfg, mainpc, mainErr, everBound, next_id, conn, req, log>>

\* one unit of wall-clock time passes: the sleeping ticker gets closer to its
\* wake-up and every live sandbox gets older. std::thread::sleep is taken to last
\* exactly its duration: time does not pass over a wake-up that is due, nor while
\* the ticker is between two sleeps.
AdvanceTime ==
    /\ mainpc # "done"
    /\ ticker.pc = "sleep"
    /\ ticker.sleepLeft > 0
    /\ ticker' = [ticker EXCEPT !.sleepLeft = @ - 1,
                                !.sinceStop = IF ticker.shutdown THEN @ + 1 ELSE @]
    /\ req' = [r \in Reqs |->
                 IF req[r].store /\ req[r].age < AgeCap
                 THEN [req[r] EXCEPT !.age = @ + 1] ELSE req[r]]
    /\ UNCHANGED <<cfg, mainpc, mainErr, everBound, engine, next_id, conn, log>>

----------------------------------------------------------------------------
(* handle_request: the spawned invocation task *)

\* a read of the counter that leaves it as it is
FetchAddKeep(v) == v

\* AtomicU64::fetch_add(1): the new value of the counter (the old one is
\* returned); the model never comes near the wrap at 2^64
FetchAdd(v) == v + 1

\* a normalisation that falls back to a default host when the request names none
NormalizeUriDefaultHost(host, authority, path_and_query) ==
    IF host \in {"non_utf8", "not_an_authority"} THEN UriInvalid
    ELSE IF ~path_and_query THEN UriInvalid
    ELSE "ok"

\* lines 416-442: the absolute URI is built from the Host header, or else from
\* the authority of the request's URI, and the path and query; "ok" or the error
NormalizeUri(host, authority, path_and_query) ==
    IF host = "non_utf8" THEN UriInvalid
    ELSE IF host = "absent" /\ ~authority THEN UriInvalid
    ELSE IF ~path_and_query THEN UriInvalid
    ELSE IF host = "not_an_authority" THEN UriInvalid
    ELSE "ok"

\* a deadline of EPOCH_PRECISION epochs, without the one of slack
StoreDeadlineNoSlack(epoch) == epoch + EPOCH_PRECISION

\* line 180: store.set_epoch_deadline(EPOCH_PRECISION + 1), a deadline relative
\* to the engine's current epoch
StoreDeadline(epoch) == epoch + EPOCH_PRECISION + 1

\* a drop of the Sender that discards a value already sent
SenderDroppedRetracts(chan) == "closed"

\* the oneshot channel when its Sender is dropped: closed unless a value was sent
SenderDropped(chan) == IF chan = "empty" THEN "closed" ELSE chan

\* a task whose store stays alive after the task's future has completed
ExitingKeepsStore(q, result) ==
    [q EXCEPT !.task = "exiting", !.res = result,
              !.sender = "gone", !.chan = SenderDropped(q.chan)]

\* the task's future completes with `result` (an early `?`, the end of the async
\* block, or a panic caught by tokio): its locals are dropped, the store and the
\* Sender with them; the JoinHandle is not yet notified
Exiting(q, result) ==
    [q EXCEPT !.task = "exiting", !.res = result, !.store = FALSE, !.deadline = -1,
              !.age = 0, !.sender = "gone", !.chan = SenderDropped(q.chan)]

FreeSlot(r) == req[r].hr = "none" /\ \A s \in 1..(r - 1) : req[s].hr # "none"

\* lines 404-412: hyper calls the service for a request read from connection c:
\* the oneshot channel is created and the task is spawned
HandleRequest(c, r) ==
    /\ RuntimeAlive
    /\ conn[c].st = "open" /\ conn[c].cur = 0
    /\ FreeSlot(r)
    /\ \E host \in HostHeaders, authority \in BOOLEAN, path_and_query \in BOOLEAN :
          req' = [req EXCEPT ![r] =
                    [NoReq EXCEPT !.conn = c, !.host = host, !.authority = authority,
                                  !.path_and_query = path_and_query, !.uri = "raw",
                                  !.hr = "recv", !.task = "spawned", !.chan = "empty",
                                  !.sender = "task"]]
    /\ conn' = [conn EXCEPT ![c].cur = r]
    /\ UNCHANGED <<cfg, mainpc, mainErr, everBound, engine, ticker, next_id, log>>

\* lines 413-450: next_req_id(), then the request's URI is made absolute
TaskStart(r) ==
    /\ RuntimeAlive
    /\ req[r].task = "spawned"
    /\ next_id' = FetchAdd(next_id)
    /\ LET q == [req[r] EXCEPT !.id = next_id]
           n == NormalizeUri(q.host, q.authority, q.path_and_query)
       IN  req' = [req EXCEPT ![r] =
                     IF n = "ok" THEN [q EXCEPT !.task = "new_store", !.uri = "absolute"]
                     ELSE Exiting(q, n)]
    /\ UNCHANGED <<cfg, mainpc, mainErr, everBound, engine, ticker, conn, log>>

\* lines 452-455: new_store (lines 134-193), new_incoming_request and
\* new_response_outparam, which moves the Sender into the store's table
TaskNewStore(r) ==
    /\ RuntimeAlive
    /\ req[r].task = "new_store"
    /\ cfg.timeout => StoreDeadline(engine.epoch) <= MaxEpoch
    /\ \E outcome \in {"ok", "new_store", "resource_table"} :
          LET q == [req[r] EXCEPT !.new_store_called = TRUE]
          IN  req' = [req EXCEPT ![r] =
                CASE outcome = "ok" ->
                       [q EXCEPT !.task = "instantiate", !.store = TRUE, !.sender = "store",
                                 !.stores_created = @ + 1,
                                 !.deadline = IF cfg.timeout
                                              THEN StoreDeadline(engine.epoch) ELSE -1]
                  [] outcome = "new_store" -> Exiting(q, "new_store")
                  [] outcome = "resource_table" -> Exiting(q, "resource_table")]
    /\ UNCHANGED <<cfg, mainpc, mainErr, everBound, engine, ticker, next_id, conn, log>>

\* line 457: instance_pre.instantiate_async(&mut store).await?
TaskInstantiate(r) ==
    /\ RuntimeAlive
    /\ req[r].task = "instantiate"
    /\ \E ok \in BOOLEAN :
          req' = [req EXCEPT ![r] =
                    IF ok THEN [@ EXCEPT !.task = "invoke", !.invocations = @ + 1]
                    ELSE Exiting(@, "instantiate")]
    /\ UNCHANGED <<cfg, mainpc, mainErr, everBound, engine, ticker, next_id, conn, log>>

\* lines 459-462, inside call_handle: the guest calls response-outparam::set with
\* a response or an error code, which sends it on the oneshot channel
GuestSetResponse(r) ==
    /\ RuntimeAlive
    /\ req[r].task = "invoke"
    /\ req[r].sender = "store"
    /\ \E v \in Responses \cup GuestErrorCodes :
          req' = [req EXCEPT ![r] = [@ EXCEPT !.chan = v, !.sent = v, !.sender = "gone"]]
    /\ UNCHANGED <<cfg, mainpc, mainErr, everBound, engine, ticker, next_id, conn, log>>

\* lines 455 and 459-462, inside call_handle: the guest drops its
\* response-outparam handle without calling set: the Sender that line 455 moved
\* into the store's table is dropped, and the guest runs on
GuestDropOutparam(r) ==
    /\ RuntimeAlive
    /\ req[r].task = "invoke"
    /\ req[r].sender = "store"
    /\ req' = [req EXCEPT ![r] = [@ EXCEPT !.chan = SenderDropped(@), !.sender = "gone"]]
    /\ UNCHANGED <<cfg, mainpc, mainErr, everBound, engine, ticker, next_id, conn, log>>

\* lines 459-468: call_handle returns Ok(()), the task returns Ok(())
GuestReturn(r) ==
    /\ RuntimeAlive
    /\ req[r].task = "invoke"
    /\ req' = [req EXCEPT ![r] = Exiting(@, "Ok")]
    /\ UNCHANGED <<cfg, mainpc, mainErr, everBound, engine, ticker, next_id, conn, log>>

\* lines 459-466: call_handle returns Err(e), logged and returned: the guest
\* trapped, or the store's limiter (lines 183-184) refused a growth and the
\* guest trapped on that
GuestTrap(r) ==
    /\ RuntimeAlive
    /\ req[r].task = "invoke"
    /\ \E cause \in {"trap", "limit"} :
          req' = [req EXCEPT ![r] = Exiting([@ EXCEPT !.logged = TRUE], cause)]
    /\ UNCHANGED <<cfg, mainpc, mainErr, everBound, engine, ticker, next_id, conn, log>>

\* the task panics during the invocation: tokio catches it, the JoinHandle will
\* yield a JoinError (line 484)
TaskPanic(r) ==
    /\ RuntimeAlive
    /\ req[r].task = "invoke"
    /\ req' = [req EXCEPT ![r] = Exiting(@, JoinError)]
    /\ UNCHANGED <<cfg, mainpc, mainErr, everBound, engine, ticker, next_id, conn, log>>

\* the guest enters a loop it never leaves by itself
GuestEnterLoop(r) ==
    /\ RuntimeAlive
    /\ req[r].task = "invoke"
    /\ req' = [req EXCEPT ![r] = [@ EXCEPT !.task = "invoke_loop", !.looped = TRUE]]
    /\ UNCHANGED <<cfg, mainpc, mainErr, everBound, engine, ticker, next_id, conn, log>>

\* the epoch deadline of a store: the one set on line 180, and epoch 0 for a
\* store on which set_epoch_deadline was never called (-1)
EffectiveDeadline(d) == IF d < 0 THEN 0 ELSE d

\* lines 179-181 and 459-466: guest code compiled with epoch interruption finds
\* the engine's epoch at or past the store's deadline: it traps, call_handle
\* returns Err
EpochInterrupt(r) ==
    /\ Polling
    /\ req[r].task \in {"invoke", "invoke_loop"}
    /\ engine.epoch_interruption
    /\ engine.epoch >= EffectiveDeadline(req[r].deadline)
    /\ req' = [req EXCEPT ![r] = Exiting([@ EXCEPT !.logged = TRUE], "interrupt")]
    /\ UNCHANGED <<cfg, mainpc, mainErr, everBound, engine, ticker, next_id, conn, log>>

\* the task's output is stored and its JoinHandle notified
TaskExit(r) ==
    /\ RuntimeAlive
    /\ req[r].task = "exiting"
    /\ req' = [req EXCEPT ![r] = [@ EXCEPT !.task = "done"]]
    /\ UNCHANGED <<cfg, mainpc, mainErr, everBound, engine, ticker, next_id, conn, log>>

----------------------------------------------------------------------------
(* handle_request: the receiving side *)

\* lines 472-473: what handle_request returns for a value received on the channel
OnRecv(v) ==
    IF v \in Responses THEN [hr |-> "ret_ok", val |-> v] ELSE [hr |-> "ret_err", val |-> v]

\* a handle_request that reports the RecvError instead of the task's error
OnRecvErrorGeneric(res) ==
    IF res = "Ok" THEN [hr |-> "panicked", val |-> "expect_err"]
    ELSE [hr |-> "ret_err", val |-> "RecvError"]

\* lines 482-486: what handle_request does with the task's outcome after a
\* RecvError: expect_err panics on Ok(()), the task's error is returned otherwise
OnRecvError(res) ==
    IF res = "Ok" THEN [hr |-> "panicked", val |-> "expect_err"]
    ELSE [hr |-> "ret_err", val |-> res]

\* the connection of a request whose handle_request ended: the response is
\* written and the connection reads on; an Err ends serve_connection with an
\* error (printed, lines 329-331); a panic ends the connection's task
ConnAfter(c, hr) ==
    CASE hr = "ret_ok" -> [conn EXCEPT ![c].cur = 0]
      [] hr = "ret_err" -> [conn EXCEPT ![c] = [st |-> "failed", cur |-> 0]]
      [] hr = "panicked" -> [conn EXCEPT ![c] = [st |-> "panicked", cur |-> 0]]

\* line 471: receiver.await resolves, with the value sent or with a RecvError
HrRecv(r) ==
    /\ RuntimeAlive
    /\ req[r].hr = "recv"
    /\ req[r].chan # "empty"
    /\ IF req[r].chan = "closed"
       THEN /\ req' = [req EXCEPT ![r] = [@ EXCEPT !.hr = "await_task"]]
            /\ UNCHANGED <<conn, mainpc>>
       ELSE LET o == OnRecv(req[r].chan)
            IN  /\ req' = [req EXCEPT ![r] = [@ EXCEPT !.hr = o.hr, !.hrVal = o.val]]
                /\ conn' = ConnAfter(req[r].conn, o.hr)
                /\ mainpc' = IF o.hr = "ret_ok" THEN mainpc ELSE OnConnectionError(mainpc)
    /\ UNCHANGED <<cfg, mainErr, everBound, engine, ticker, next_id, log>>

\* lines 482-486: task.await resolves once the task has exited
HrAwaitTask(r) ==
    /\ RuntimeAlive
    /\ req[r].hr = "await_task"
    /\ req[r].task = "done"
    /\ LET o == OnRecvError(req[r].res)
       IN  /\ req' = [req EXCEPT ![r] = [@ EXCEPT !.hr = o.hr, !.hrVal = o.val]]
           /\ conn' = ConnAfter(req[r].conn, o.hr)
           /\ mainpc' = IF o.hr = "ret_err" THEN OnConnectionError(mainpc) ELSE mainpc
    /\ UNCHANGED <<cfg, mainErr, everBound, engine, ticker, next_id, log>>

----------------------------------------------------------------------------
(* Captured output: LogStream and Output *)

\* the bytes a guest writes: a byte that is not a line terminator, and b'\n'
Bytes == {"a", "nl"}

\* enum Output
Streams == {"Stdout", "Stderr"}

\* the argument of one write
ByteStrings == UNION {[1..n -> Bytes] : n \in 0..MaxLen}

\* one byte of a line in the host's output
ByteToken(b) == [b |-> b, tag |-> "", id |-> -1]

\* lines 141 and 146: format!("stdout [{req_id}] :: ") and
\* format!("stderr [{req_id}] :: "), kept as one token of the output
PrefixToken(stream, id) ==
    [b |-> "prefix", tag |-> IF stream = "Stdout" THEN "stdout" ELSE "stderr", id |-> id]

\* line 534: bytes.split(|c| *c == b'\n'): the pieces between the terminators,
\* one more than there are terminators, empty pieces included
RECURSIVE Split(_)
Split(bytes) ==
    IF \A i \in 1..Len(bytes) : bytes[i] # "nl" THEN <<bytes>>
    ELSE LET k == Min({i \in 1..Len(bytes) : bytes[i] = "nl"})
         IN  <<SubSeq(bytes, 1, k - 1)>> \o Split(SubSeq(bytes, k + 1, Len(bytes)))

\* lines 534-540: every piece that is not empty is appended to msg as the
\* prefix, the piece and b'\n'
RECURSIVE MsgOf(_, _)
MsgOf(prefix, pieces) ==
    IF pieces = <<>> THEN <<>>
    ELSE LET line == Head(pieces)
         IN  (IF Len(line) = 0 THEN <<>>
              ELSE <<prefix>> \o [i \in 1..Len(line) |-> ByteToken(line[i])]
                              \o <<ByteToken("nl")>>)
             \o MsgOf(prefix, Tail(pieces))

\* lines 532-540: the msg that LogStream::write builds from one write
LogStreamWrite(prefix, bytes) == MsgOf(prefix, Split(bytes))

\* a LogStream that hands the prefix, the line and the terminator to the
\* output in calls of their own
RECURSIVE FragmentCalls(_, _)
FragmentCalls(prefix, pieces) ==
    IF pieces = <<>> THEN <<>>
    ELSE LET line == Head(pieces)
         IN  (IF Len(line) = 0 THEN <<>>
              ELSE << <<prefix>>, [i \in 1..Len(line) |-> ByteToken(line[i])],
                      <<ByteToken("nl")>> >>)
             \o FragmentCalls(prefix, Tail(pieces))

WriteCallsPerFragment(prefix, bytes) == FragmentCalls(prefix, Split(bytes))

\* lines 542-544: the calls of Output::write_all that one write makes: one call,
\* with the whole msg
WriteCalls(prefix, bytes) == <<LogStreamWrite(prefix, bytes)>>

\* nothing has been written
NoLog ==
    [out |-> [s \in Streams |-> <<>>],
     pending |-> [r \in Reqs |-> <<>>],
     stream |-> [r \in Reqs |-> "Stdout"],
     wrote |-> [r \in Reqs |-> [s \in Streams |-> <<>>]],
     writes |-> 0]

\* lines 531-540: the guest of request r writes `bytes` to its stdout or stderr:
\* LogStream::write builds msg with the prefix of lines 141/146
GuestWrite(r, s, bytes) ==
    /\ RuntimeAlive
    /\ req[r].task = "invoke" /\ req[r].store
    /\ log.writes < MaxWrites
    /\ log.pending[r] = <<>>
    /\ log' = [log EXCEPT !.pending[r] = WriteCalls(PrefixToken(s, req[r].id), bytes),
                          !.stream[r] = s,
                          !.wrote[r][s] = @ \o bytes,
                          !.writes = @ + 1]
    /\ UNCHANGED <<cfg, mainpc, mainErr, everBound, engine, ticker, next_id, conn, req>>

\* lines 498-506: Output::write_all: std's stdout()/stderr().write_all(buf) takes
\* the stream's lock and writes the whole buffer under it
OutputWriteAll(r) ==
    /\ RuntimeAlive
    /\ log.pending[r] # <<>>
    /\ LET buf == Head(log.pending[r])
       IN  log' = [log EXCEPT
                     !.out[log.stream[r]] = @ \o [i \in 1..Len(buf) |-> [by |-> r, t |-> buf[i]]],
                     !.pending[r] = Tail(@)]
    /\ UNCHANGED <<cfg, mainpc, mainErr, everBound, engine, ticker, next_id, conn, req>>

----------------------------------------------------------------------------
(* Specifications *)


\* the process starts: any command line, any build
InitStartup ==
    /\ cfg \in Configs
    /\ mainpc = "execute"
    /\ mainErr = "none"
    /\ everBound = FALSE
    /\ engine = NoEngine
    /\ ticker = NoTicker
    /\ next_id = 0
    /\ conn = [c \in Conns |-> [st |-> "idle", cur |-> 0]]
    /\ req = [r \in Reqs |-> NoReq]
    /\ log = NoLog

\* serve() has reached its accept loop (line 317) with the options `timeout`
Serving(timeout) ==
    /\ cfg = ServingConfig(timeout)
    /\ mainpc = "accept"
    /\ mainErr = "none"
    /\ everBound = TRUE
    /\ engine = [epoch_interruption |-> EpochInterruption(timeout),
                 pooling |-> PoolingHint("reserved"), epoch |-> 0,
                 probe |-> "reserved", built |-> TRUE]
    /\ ticker = IF timeout THEN SpawnedTicker ELSE NoTicker
    /\ next_id = 0
    /\ conn = [c \in Conns |-> [st |-> "idle", cur |-> 0]]
    /\ req = [r \in Reqs |-> NoReq]
    /\ log = NoLog

\* the command line of a plain `wasmtime serve component.wasm`, with or without
\* a timeout
PlainConfig(timeout) ==
    [ServingConfig(timeout) EXCEPT !.http = "None", !.component_model = "None"]

\* the process starts with such a command line
InitRun ==
    /\ cfg \in {PlainConfig(timeout) : timeout \in BOOLEAN}
    /\ mainpc = "execute"
    /\ mainErr = "none"
    /\ everBound = FALSE
    /\ engine = NoEngine
    /\ ticker = NoTicker
    /\ next_id = 0
    /\ conn = [c \in Conns |-> [st |-> "idle", cur |-> 0]]
    /\ req = [r \in Reqs |-> NoReq]
    /\ log = NoLog

\* the server without a timeout, serving
Init == Serving(FALSE)

\* a request as it is while its guest runs in call_handle
Invoking(c, id) ==
    [NoReq EXCEPT !.conn = c, !.host = "valid", !.path_and_query = TRUE,
                  !.uri = "absolute", !.hr = "recv", !.task = "invoke", !.id = id,
                  !.chan = "empty", !.sender = "store", !.new_store_called = TRUE,
                  !.store = TRUE, !.stores_created = 1, !.invocations = 1]

\* the first request of each of the first two connections
LogReqs == {r \in Reqs : r <= 2 /\ r <= MaxConns}

\* the server without a timeout, with these requests in call_handle
LoggingState ==
    /\ cfg = ServingConfig(FALSE)
    /\ mainpc = "accept"
    /\ mainErr = "none"
    /\ everBound = TRUE
    /\ engine = [epoch_interruption |-> EpochInterruption(FALSE),
                 pooling |-> PoolingHint("reserved"), epoch |-> 0,
                 probe |-> "reserved", built |-> TRUE]
    /\ ticker = NoTicker
    /\ next_id = Cardinality(LogReqs)
    /\ conn = [c \in Conns |-> IF c \in LogReqs THEN [st |-> "open", cur |-> c]
                                ELSE [st |-> "idle", cur |-> 0]]
    /\ req = [r \in Reqs |-> IF r \in LogReqs THEN Invoking(r, r - 1) ELSE NoReq]
    /\ log = NoLog

InitLog == LoggingState

\* the server serving, with or without a timeout
InitStop == \E timeout \in BOOLEAN : Serving(timeout)

\* the server with a timeout, serving
InitTimed == Serving(TRUE)

StartupStep ==
    \/ ExecuteValidate
    \/ BuildRuntime
    \/ ServeConfig
    \/ ServeEngine
    \/ ServeAddToLinker
    \/ ServeLoadComponent
    \/ ServeInstantiatePre
    \/ ServeBind
    \/ ServeSpawnEpochThread

MainStep ==
    \/ AcceptError
    \/ CtrlC
    \/ ServeDropped
    \/ RuntimeDropped

TaskStep(r) ==
    \/ TaskStart(r)
    \/ TaskNewStore(r)
    \/ TaskInstantiate(r)
    \/ GuestSetResponse(r)
    \/ GuestDropOutparam(r)
    \/ GuestReturn(r)
    \/ GuestTrap(r)
    \/ TaskPanic(r)
    \/ TaskExit(r)
    \/ HrRecv(r)
    \/ HrAwaitTask(r)

ConnStep(c) ==
    \/ Accept(c)
    \/ ConnClose(c)
    \/ ConnError(c)

NextStartup ==
    \/ StartupStep
    \/ MainStep
    \/ \E c \in Conns : Accept(c)

Next ==
    \/ \E c \in Conns : ConnStep(c)
    \/ \E c \in Conns, r \in Reqs : HandleRequest(c, r)
    \/ \E r \in Reqs : TaskStep(r)

TickerStep ==
    \/ TickerCheck
    \/ TickerWake
    \/ AdvanceTime

\* the ticker against the requests of the first connection
NextTimed ==
    \/ TickerStep
    \/ \E c \in {Min(Conns)} : Accept(c) \/ HandleRequest(c, Min(Reqs))
    \/ \E r \in {Min(Reqs)} : TaskStep(r) \/ GuestEnterLoop(r) \/ EpochInterrupt(r)

\* a whole run of the server, from the command line to the return of execute():
\* start-up, the ticker, the requests of the first connection, the teardown
NextRun ==
    \/ StartupStep
    \/ MainStep
    \/ EpochThreadJoined
    \/ NextTimed

StartupSpec == InitStartup /\ [][NextStartup]_vars

Spec == Init /\ [][Next]_vars

TimedSpec == InitTimed /\ [][NextTimed]_vars

\* the ticker is an OS thread and the clock runs; tokio polls a task that can
\* make a step; a guest in a loop keeps executing and so reaches its next epoch check
Fairness ==
    /\ WF_vars(TickerCheck)
    /\ WF_vars(TickerWake)
    /\ WF_vars(AdvanceTime)
    /\ \A r \in Reqs :
          /\ WF_vars(req[r].task = "invoke_loop" /\ EpochInterrupt(r))
          /\ WF_vars(TaskExit(r))
          /\ WF_vars(HrRecv(r))
          /\ WF_vars(HrAwaitTask(r))

LiveSpec == TimedSpec /\ Fairness

RunSpec == InitRun /\ [][NextRun]_vars

\* the guests of the requests in flight write to their output streams
NextLog ==
    \/ \E r \in LogReqs, s \in Streams, bytes \in ByteStrings : GuestWrite(r, s, bytes)
    \/ \E r \in LogReqs : OutputWriteAll(r)

\* the server from its accept loop to the return of execute(): the ticker, the
\* requests of the first connection, an accept error or the interrupt signal,
\* and the teardown
NextStop ==
    \/ MainStep
    \/ EpochThreadJoined
    \/ NextTimed

StopSpec == InitStop /\ [][NextStop]_vars

\* the main thread runs on: the drops at the end of serve() and of execute() are
\* made as soon as they can be
FairnessStop ==
    /\ Fairness
    /\ WF_vars(ServeDropped)
    /\ WF_vars(EpochThreadJoined)
    /\ WF_vars(RuntimeDropped)

LiveStopSpec == StopSpec /\ FairnessStop

\* the accept loop with its connections, their errors, the requests of one
\* slot, an error of accept or the interrupt signal, and the teardown
NextAccept ==
    \/ MainStep
    \/ \E c \in Conns : ConnStep(c)
    \/ \E c \in Conns : HandleRequest(c, Min(Reqs))
    \/ \E r \in {Min(Reqs)} : TaskStep(r)

AcceptSpec == Init /\ [][NextAccept]_vars

LogSpec == InitLog /\ [][NextLog]_vars

----------------------------------------------------------------------------
(* Properties *)

HrEnded(r) == req[r].hr \in {"ret_ok", "ret_err", "panicked"}

\* C1: no two requests obtain the same request id from next_req_id, in any
\* interleaving of their tasks
C1_UniqueRequestIds ==
    \A r1 \in Reqs, r2 \in Reqs :
        (r1 # r2 /\ req[r1].id >= 0 /\ req[r2].id >= 0) => req[r1].id # req[r2].id

\* two requests in flight together, the one that arrived second took its id first
C1_Witness ==
    \E r1 \in Reqs, r2 \in Reqs :
        r1 < r2 /\ req[r2].id = 0 /\ req[r1].id = 1

\* C2: a handle_request that has ended has returned, with exactly one of the
\* response sent through the channel or an error; it never ends without a value
C2_ExactlyOneOutcome ==
    \A r \in Reqs :
        HrEnded(r) =>
            \/ req[r].hr = "ret_ok" /\ req[r].hrVal \in Responses
            \/ req[r].hr = "ret_err" /\ req[r].hrVal # "none"

\* C3: when handle_request returns an error for a request whose response was
\* never sent, the task has ended with an error or a join error and the error
\* returned carries that very cause
C3_ErrorCarriesTaskCause ==
    \A r \in Reqs :
        (req[r].hr = "ret_err" /\ req[r].sent = "none") =>
            /\ req[r].task = "done"
            /\ req[r].res \in TaskErrors \cup {JoinError}
            /\ req[r].hrVal = req[r].res

\* the task failed at instantiation, another panicked, and handle_request
\* returned these causes
C3_Witness ==
    \E r1 \in Reqs, r2 \in Reqs :
        /\ req[r1].hr = "ret_err" /\ req[r1].sent = "none" /\ req[r1].hrVal = "instantiate"
        /\ req[r2].hr = "ret_err" /\ req[r2].sent = "none" /\ req[r2].hrVal = JoinError

\* C4: when the task returned Ok(()) and no response was ever sent,
\* handle_request ends by returning an error, and in no other way
C4_OkWithoutResponseIsError ==
    \A r \in Reqs :
        (req[r].res = "Ok" /\ req[r].sent = "none" /\ HrEnded(r)) => req[r].hr = "ret_err"

\* C5: a request with neither a Host header nor an authority is refused with
\* HttpRequestUriInvalid and new_store is never called for it: no store, no
\* instantiation, no invocation
C5_NoHostNoAuthorityRejected ==
    \A r \in Reqs :
        (req[r].hr # "none" /\ req[r].host = "absent" /\ ~req[r].authority) =>
            /\ ~req[r].new_store_called /\ ~req[r].store
            /\ req[r].task \in {"spawned", "exiting", "done"}
            /\ req[r].task \in {"exiting", "done"} => req[r].res = UriInvalid
            /\ req[r].hr \in {"recv", "await_task", "ret_err"}
            /\ req[r].hr = "ret_err" => req[r].hrVal = UriInvalid

\* such a request, with a path, has been refused
C5_Witness ==
    \E r \in Reqs :
        /\ req[r].host = "absent" /\ ~req[r].authority /\ req[r].path_and_query
        /\ req[r].hr = "ret_err" /\ req[r].hrVal = UriInvalid
        /\ req[r].task = "done" /\ ~req[r].new_store_called

\* C6: with a timeout T, a live sandbox's epoch deadline is not reached before
\* T has passed since its creation, and is reached once T + T/10 has passed
C6_DeadlineWindow ==
    \A r \in Reqs :
        (req[r].store /\ req[r].deadline >= 0) =>
            /\ engine.epoch >= req[r].deadline => req[r].age >= Timeout
            /\ engine.epoch < req[r].deadline => req[r].age <= Timeout + TickLen

\* a sandbox created right before a tick has just reached its deadline, at age T
C6_Witness ==
    \E r \in Reqs :
        /\ req[r].store /\ ticker.pc = "check"
        /\ engine.epoch = req[r].deadline /\ req[r].age = Timeout

\* C7: with a timeout, a guest that loops without ever sending a response is
\* interrupted: the task ends with the interrupt and handle_request returns it
C7_LoopingGuestInterrupted ==
    \A r \in Reqs :
        (req[r].task = "invoke_loop" /\ req[r].sent = "none")
            ~> (req[r].hr = "ret_err" /\ req[r].hrVal = "interrupt" /\ req[r].task = "done")

\* a guest that had entered its loop without a response was interrupted and
\* handle_request returned the interrupt
C7_Witness ==
    \E r \in Reqs :
        /\ req[r].looped /\ req[r].sent = "none"
        /\ req[r].res = "interrupt" /\ req[r].logged
        /\ req[r].hr = "ret_err" /\ req[r].hrVal = "interrupt"

\* C8: once a response has been sent, handle_request ends only by returning
\* that response, and it stays the returned value whatever the invocation does
\* afterwards
C8_ResponseNotRetracted ==
    \A r \in Reqs :
        (req[r].sent \in Responses /\ req[r].hr # "recv") =>
            req[r].hr = "ret_ok" /\ req[r].hrVal = req[r].sent

\* the response was returned and the invocation then failed, which was logged
C8_Witness ==
    \E r \in Reqs :
        /\ req[r].sent \in Responses /\ req[r].hr = "ret_ok" /\ req[r].hrVal = req[r].sent
        /\ req[r].task = "done" /\ req[r].res = "trap" /\ req[r].logged

\* a step in which request r fails: its task ends with an error or a panic, or
\* its handle_request ends with an error or a panic
RequestFails(r) ==
    \/ req[r].task \notin {"exiting", "done"} /\ req'[r].task = "exiting" /\ req'[r].res # "Ok"
    \/ ~HrEnded(r) /\ req'[r].hr \in {"ret_err", "panicked"}

\* a step in which connection c ends with an error
ConnectionFails(c) ==
    conn[c].st = "open" /\ conn'[c].st \in {"failed", "panicked"}

\* C9: a step in which a request or a connection fails leaves the accept loop
\* where it is and changes nothing of the other connections and their requests;
\* and however many connections have failed, the accept loop accepts the next one
C9_FailuresAreConfined ==
    /\ [][/\ \A r \in Reqs : RequestFails(r) =>
                /\ mainpc' = mainpc
                /\ \A c \in Conns \ {req[r].conn} : conn'[c] = conn[c]
                /\ \A q \in Reqs \ {r} : req'[q] = req[q]
          /\ \A c \in Conns : ConnectionFails(c) =>
                /\ mainpc' = mainpc
                /\ \A d \in Conns \ {c} : conn'[d] = conn[d]
                /\ \A q \in Reqs : req[q].conn # c => req'[q] = req[q]]_vars
    /\ [](\A c \in Conns :
            (conn[c].st = "idle" /\ \A d \in 1..(c - 1) : conn[d].st # "idle")
                => ENABLED Accept(c))

\* the first connection has failed on a request, the second was accepted and
\* its request was answered
C9_Witness ==
    \E r1 \in Reqs, r2 \in Reqs :
        /\ req[r1].conn = 1 /\ req[r1].hr = "ret_err" /\ conn[1].st = "failed"
        /\ req[r2].conn = 2 /\ req[r2].hr = "ret_ok" /\ conn[2].st = "open"
        /\ mainpc = "accept"

\* C10: when execute() has failed with a validation error, the socket was never
\* bound and no connection was accepted
C10_ValidationBeforeBind ==
    mainErr \in ValidationErrors => (~everBound /\ \A c \in Conns : conn[c].st = "idle")

\* the last of the validations, the refusal of a core module, has failed
C10_Witness ==
    mainpc = "done" /\ mainErr = "not_a_component" /\ engine.epoch_interruption

\* C11: once the drop of EpochThread has returned, the ticker thread has exited
\* and the global epoch is never incremented again; and the thread exits within
\* one sleep interval of the moment the shutdown flag was stored
C11_StopJoinsTicker ==
    /\ []((mainpc \in {"drop_runtime", "done"} /\ ticker.pc # "none")
             => ticker.pc = "exited")
    /\ [](ticker.shutdown => ticker.sinceStop <= TickLen)
    /\ [][(mainpc \in {"drop_runtime", "done"}) => (engine'.epoch = engine.epoch)]_vars

\* the flag was stored right when a sleep began: the thread slept the whole
\* interval, made its increment and exited, and then the drop returned
C11_Witness ==
    /\ mainpc = "done" /\ ticker.pc = "exited"
    /\ ticker.stopPc = "sleep" /\ ticker.sinceStop = TickLen
    /\ engine.epoch = ticker.stopEpoch + 1

\* C12: the engine's epoch interruption, the epoch deadline of every store and
\* the ticker thread are there exactly when a timeout is configured; without a
\* timeout there is no ticker, no store has a deadline and no invocation ends
\* with an epoch interrupt
C12_DeadlineSwitchesAgree ==
    /\ engine.built => (engine.epoch_interruption <=> cfg.timeout)
    /\ ticker.pc # "none" => cfg.timeout
    /\ (mainpc = "accept" /\ cfg.timeout) => ticker.pc # "none"
    /\ \A r \in Reqs :
          /\ req[r].store =>
                /\ req[r].deadline >= 0 <=> cfg.timeout
                /\ req[r].deadline >= 0 <=> engine.epoch_interruption
                /\ req[r].deadline >= 0 <=> ticker.pc # "none"
          /\ ~cfg.timeout => req[r].res # "interrupt"

\* no timeout: a guest loops in its sandbox, which has no deadline, while the
\* server serves without a ticker
C12_Witness ==
    /\ ~cfg.timeout /\ mainpc = "accept" /\ ticker.pc = "none"
    /\ ~engine.epoch_interruption
    /\ \E r \in Reqs :
          req[r].task = "invoke_loop" /\ req[r].store /\ req[r].deadline < 0

\* C13: the global epoch never decreases; a step that changes it adds exactly
\* one, is the ticker thread's step after its sleep, and is no step of a request
\* task, which leaves every request as it is
C13_EpochOnlyTicks ==
    [][(engine'.epoch # engine.epoch) =>
          /\ engine'.epoch = engine.epoch + 1
          /\ ticker.pc = "sleep" /\ ticker'.pc = "check"
          /\ req' = req /\ next_id' = next_id /\ conn' = conn]_vars

\* the ticker has counted up to a sandbox's deadline, and the invocation that
\* read the epoch was interrupted
C13_Witness ==
    \E r \in Reqs :
        /\ req[r].res = "interrupt" /\ engine.epoch >= StoreDeadline(0)
        /\ ticker.pc = "sleep"

\* C20: the ticker thread goes to sleep only from its loop condition with the
\* flag unset, for a full interval, increments only when that sleep is over, and
\* exits only at the loop condition; so after the shutdown flag is stored it
\* makes at most one more increment, exactly one when the store came while it
\* slept and none when it came while it was at the loop condition
C20_AtMostOneIncrementAfterStop ==
    /\ [](ticker.shutdown => engine.epoch <= ticker.stopEpoch + 1)
    /\ []((ticker.pc = "exited" /\ ticker.stopPc = "sleep")
             => engine.epoch = ticker.stopEpoch + 1)
    /\ []((ticker.pc = "exited" /\ ticker.stopPc = "check")
             => engine.epoch = ticker.stopEpoch)
    /\ [][/\ (ticker.pc # "sleep" /\ ticker'.pc = "sleep") =>
                (ticker.pc = "check" /\ ~ticker.shutdown /\ ticker'.sleepLeft = TickLen)
          /\ (engine'.epoch # engine.epoch) =>
                (ticker.pc = "sleep" /\ ticker.sleepLeft = 0)
          /\ (ticker.pc # "exited" /\ ticker'.pc = "exited") =>
                (ticker.pc = "check" /\ ticker.shutdown)]_vars

\* the flag was stored in the middle of a sleep: the thread finished the sleep,
\* made one more increment and exited
C20_Witness ==
    /\ ticker.pc = "exited" /\ ticker.stopPc = "sleep"
    /\ ticker.sinceStop = 1 /\ TickLen > 1
    /\ engine.epoch = ticker.stopEpoch + 1 /\ ticker.stopEpoch > 0

\* C14: a request creates at most one sandbox and invokes the handler in it at
\* most once; the sandbox lives only while that request's task works with it
\* and is gone once the task has completed or failed; a step of a task on its
\* sandbox changes no other request, and a request that fails on a resource
\* limit changes nothing of the other requests and of their connections
C14_SandboxPerRequest ==
    /\ [](\A r \in Reqs :
            /\ req[r].stores_created <= 1
            /\ req[r].invocations <= req[r].stores_created
            /\ req[r].store =>
                  (/\ req[r].stores_created = 1
                   /\ req[r].task \in {"instantiate", "invoke", "invoke_loop"})
            /\ req[r].task \in {"exiting", "done"} => ~req[r].store)
    /\ [][\A r \in Reqs :
            /\ ((req[r].store \/ req'[r].store) /\ req'[r] # req[r])
                  => \A q \in Reqs \ {r} : req'[q] = req[q]
            /\ (req[r].res # "limit" /\ req'[r].res = "limit")
                  => /\ \A q \in Reqs \ {r} : req'[q] = req[q]
                     /\ conn' = conn]_vars

\* one request failed in its sandbox on a resource limit; another, which took
\* its id later, completed in its own sandbox and its response was returned
C14_Witness ==
    \E r1 \in Reqs, r2 \in Reqs :
        /\ req[r1].res = "limit" /\ req[r1].hr = "ret_err" /\ req[r1].hrVal = "limit"
        /\ req[r1].id < req[r2].id
        /\ req[r2].task = "done" /\ req[r2].res = "Ok" /\ req[r2].hr = "ret_ok"
        /\ req[r1].invocations = 1 /\ req[r2].invocations = 1
        /\ ~req[r1].store /\ ~req[r2].store

\* the tokens of `out` that sandbox r wrote
OutputOf(out, r) ==
    LET mine == SelectSeq(out, LAMBDA e : e.by = r)
    IN  [i \in 1..Len(mine) |-> mine[i].t]

\* the lines of `bytes` that end with a terminator: every piece but the last
CompleteLines(bytes) ==
    LET pieces == Split(bytes) IN SubSeq(pieces, 1, Len(pieces) - 1)

\* C15: when no write of sandbox r is under way, what r has put on the host's
\* stdout (stderr) is the terminated, non-empty lines of all it wrote to that
\* stream, each once as prefix + line + newline, in order; the bytes after the
\* last terminator are not there
C15_OnlyCompleteLinesLogged ==
    \A r \in Reqs, s \in Streams :
        log.pending[r] = <<>> =>
            OutputOf(log.out[s], r)
                = MsgOf(PrefixToken(s, req[r].id), CompleteLines(log.wrote[r][s]))

\* a well-formed line of sandbox e.by around position i of `out`
InLine(out, i) ==
    LET e == out[i]
        same(j) == j \in 1..Len(out) /\ out[j].by = e.by
    IN  CASE e.t.b = "prefix" ->
               /\ e.t.id = req[e.by].id
               /\ same(i + 1) /\ out[i + 1].t.b = "a"
               /\ i > 1 => out[i - 1].t.b = "nl"
          [] e.t.b = "a" ->
               /\ same(i - 1) /\ out[i - 1].t.b \in {"prefix", "a"}
               /\ same(i + 1) /\ out[i + 1].t.b \in {"a", "nl"}
          [] e.t.b = "nl" ->
               /\ same(i - 1) /\ out[i - 1].t.b = "a"

\* C16: at every moment each host stream is a sequence of whole prefixed lines:
\* the prefix of a sandbox, bytes of that sandbox, its newline, with nothing of
\* another sandbox in between
C16_LinesNotInterleaved ==
    \A s \in Streams : \A i \in 1..Len(log.out[s]) : InLine(log.out[s], i)

\* two sandboxes in flight wrote a line each to the same stream, and the line
\* of the sandbox with the later id came out first
C16_Witness ==
    \E s \in Streams, r1 \in Reqs, r2 \in Reqs :
        /\ req[r1].id < req[r2].id
        /\ log.wrote[r1][s] = <<"a", "nl">> /\ log.wrote[r2][s] = <<"a", "a">>
        /\ Len(log.out[s]) = 7
        /\ log.out[s][1].by = r2 /\ log.out[s][5].by = r1

\* C17: an Engine is built only after the probe has run; whatever the probe
\* came to, serve() can go on from its configuration to build the engine; and
\* the engine is configured with the pooling hint exactly when the test
\* reservation succeeded
C17_ProbeNeverFatal ==
    /\ engine.built => engine.probe \in ProbeOutcomes
    /\ engine.built => (engine.pooling = "SomeTrue" <=> engine.probe = "reserved")
    /\ engine.pooling = "SomeTrue" => engine.probe = "reserved"
    /\ mainpc = "config" =>
          \A p \in ProbeOutcomes :
              ENABLED (ServeConfig /\ engine'.probe = p /\ mainpc' = "engine")

\* the probe itself failed, and the server was built without the hint and serves
C17_Witness ==
    /\ engine.probe = "error" /\ engine.pooling = "None" /\ engine.built
    /\ mainpc = "accept" /\ \E c \in Conns : conn[c].st = "open"

\* the select! of execute() is over: with Ok(()) after the signal, with the
\* error of serve() otherwise
Interrupted == mainpc \in {"teardown", "join_epoch", "drop_runtime"} /\ mainErr = "none"
ServeFailed == mainpc \in {"teardown", "join_epoch", "drop_runtime"} /\ mainErr # "none"

\* C18: once the interrupt signal has been received while serving, no
\* connection is accepted any more and execute() returns, with success; when
\* serve() failed first, that error is what execute() returns; the requests in
\* flight are not waited for
C18_InterruptEndsRun ==
    /\ []((Interrupted \/ ServeFailed) => \A c \in Conns : ~ENABLED Accept(c))
    /\ Interrupted ~> (mainpc = "done" /\ mainErr = "none")
    /\ [][ServeFailed => (mainErr' = mainErr)]_vars

\* C19: whenever handle_request has found the channel closed without a value
\* and awaits the task, the task's future has already completed: no guest code
\* of that task runs any more, and the await has nothing to wait for
C19_TaskExitedOnRecvError ==
    \A r \in Reqs :
        req[r].hr = "await_task" => req[r].task \in {"exiting", "done"}

\* C21: an error of accept ends the accept loop and is the error serve()
\* returns: from then on no connection is accepted and the error stays the
\* result; an error on a connection already accepted changes neither the accept
\* loop nor the result, and the loop can accept the next connection
C21_AcceptErrorEndsServe ==
    /\ [](mainErr = "accept" =>
            (mainpc # "accept" /\ \A c \in Conns : ~ENABLED Accept(c)))
    /\ [][mainErr = "accept" =>
            /\ mainErr' = "accept"
            /\ \A c \in Conns : conn[c].st = "idle" => conn'[c].st = "idle"]_vars
    /\ [][\A c \in Conns : ConnectionFails(c) =>
            (mainpc' = mainpc /\ mainErr' = mainErr)]_vars
    /\ []((mainpc = "accept" /\ \E c \in Conns : conn[c].st \in {"failed", "panicked"})
            => \A c \in Conns :
                  (conn[c].st = "idle" /\ \A d \in 1..(c - 1) : conn[d].st # "idle")
                      => ENABLED Accept(c))

\* a connection had failed with a framing error; later accept failed: execute()
\* has returned that error and the next connection was never accepted
C21_Witness ==
    /\ mainpc = "done" /\ mainErr = "accept"
    /\ conn[1].st = "failed" /\ \A r \in Reqs : req[r].hr = "none"
    /\ \E c \in Conns : conn[c].st = "idle"

====
